---- MODULE Spec2Model ----
(***************************************************************************)
(* A model of command gohex (src/gohex.go): one run of main from the point  *)
(* where the flags are validated and the reader and the buffered writer     *)
(* exist (line 279) to process termination.  Text is a sequence of          *)
(* one-character strings; bytes are integers in 0..255.                     *)
(***************************************************************************)
EXTENDS Integers, Sequences, FiniteSets, TLC

\* ---- bounds --------------------------------------------------------------
MaxCols == 2
MaxIndent == 2
MaxLen == 3
NumBytes == 2
MaxDevWrites == 2
BufSize == 8

\* ---- characters ----------------------------------------------------------
TAB == "\t"
NL == "\n"
NUL == "NUL"

hextable == <<"0", "1", "2", "3", "4", "5", "6", "7",
              "8", "9", "a", "b", "c", "d", "e", "f">>

\* unicode.IsLetter and unicode.IsDigit on the characters the names use
IsLetter(ch) == ch \in {"a", "b", "e", "f", "g", "h", "i", "l", "o", "t", "x"}

IsDigit(ch) == ch \in {"0", "1", "2", "3", "4", "5", "6", "7", "8", "9"}

\* bytes.Repeat(tab, k)
Repeat(ch, k) == [x \in 1..k |-> ch]

\* copy(dst[at:], src): copies min(len(dst)-at, len(src)) elements
CopyAt(dst, at, src) ==
  [x \in 1..Len(dst) |->
     IF x > at /\ x - at <= Len(src) THEN src[x - at] ELSE dst[x]]

\* ---- inputs --------------------------------------------------------------
ByteOf(k) == (k * 173 + 10) % 256

Bytes == {ByteOf(k) : k \in 0..(NumBytes - 1)}

Inputs == UNION {[1..n -> Bytes] : n \in 0..MaxLen}

Names == { <<"g", "o", "h", "e", "x">>,
           <<"3", "f", "i", "l", "e", ".", "t", "x", "t">>,
           <<"_", "a", "1">>,
           <<"a", ".", "b">> }

Packages == { <<>>, <<"m", "a", "i", "n">> }

VARIABLES
  c, i, p, s, v,        \* the flags -c -i -p -s -v
  input, pos, srcEnd,   \* the reader: its bytes, the read position, how it ends
  devFails, devOK,      \* the output file: whether and after how many writes it fails
  writer,               \* the bufio.Writer: buf, err, and the file under it
  calls,                \* every w.Write call made so far: who made it, with what
  lastN, lastErr, lastWritten, \* the last iteration of the encoder's loop
  ret,                  \* writeByteSlice's return value
  flushes, flushErr,    \* explicit Flush calls and whether one failed
  reported,             \* a message was printed to the error stream
  exit,                 \* the exit status, -1 while running
  pc

vars == <<c, i, p, s, v, input, pos, srcEnd, devFails, devOK, writer, calls,
          lastN, lastErr, lastWritten, ret, flushes, flushErr, reported,
          exit, pc>>

flags == <<c, i, p, s, v>>
device == <<devFails, devOK>>
encoder == <<pos, lastN, lastErr, lastWritten, ret>>
ending == <<flushes, flushErr, reported, exit>>

\* ---- the buffered writer --------------------------------------------------
\* outfile.Write(q): all of q, or nothing and an error
DevWrite(w, q) ==
  IF devFails /\ w.nw >= devOK
    THEN [w EXCEPT !.err = TRUE, !.nw = @ + 1]
    ELSE [w EXCEPT !.file = @ \o q, !.nw = @ + 1]

\* (*bufio.Writer).Flush
BufFlush(w) ==
  IF w.err THEN w
  ELSE IF w.buf = <<>> THEN w
  ELSE LET d == DevWrite(w, w.buf)
       IN IF d.err THEN d ELSE [d EXCEPT !.buf = <<>>]

\* (*bufio.Writer).Write
RECURSIVE BufWrite(_, _)
BufWrite(w, q) ==
  IF Len(q) > BufSize - Len(w.buf) /\ ~w.err
    THEN IF w.buf = <<>>
           THEN LET d == DevWrite(w, q)
                IN IF d.err THEN d ELSE BufWrite(d, <<>>)
           ELSE LET n == BufSize - Len(w.buf)
                    w1 == BufFlush([w EXCEPT !.buf = @ \o SubSeq(q, 1, n)])
                IN BufWrite(w1, SubSeq(q, n + 1, Len(q)))
    ELSE IF w.err THEN w ELSE [w EXCEPT !.buf = @ \o q]

\* a run of w.Write calls, results ignored
RECURSIVE WriteAll(_, _)
WriteAll(w, qs) ==
  IF qs = <<>> THEN w ELSE WriteAll(BufWrite(w, Head(qs)), Tail(qs))

Logged(who, qs) == [x \in 1..Len(qs) |-> [who |-> who, data |-> qs[x]]]

Init ==
  /\ c \in 1..MaxCols
  /\ i \in 1..MaxIndent
  /\ p \in Packages
  /\ s \in BOOLEAN
  /\ v \in Names
  /\ input \in Inputs
  /\ pos = 0
  /\ srcEnd \in {"EOF", "ERR"}
  /\ devFails \in BOOLEAN
  /\ devOK \in 0..MaxDevWrites
  /\ (~devFails => devOK = 0)
  /\ writer = [buf |-> <<>>, err |-> FALSE, file |-> <<>>, nw |-> 0]
  /\ calls = <<>>
  /\ lastN = 0
  /\ lastErr = "none"
  /\ lastWritten = <<>>
  /\ ret = "none"
  /\ flushes = 0
  /\ flushErr = FALSE
  /\ reported = FALSE
  /\ exit = -1
  /\ pc = "pkg"

\* ---- declareGoPkg ---------------------------------------------------------
PkgDeclaration(name) ==
  LET d0 == Repeat(NUL, 10 + Len(name))
      d1 == CopyAt(d0, 0, <<"p", "a", "c", "k", "a", "g", "e", " ">>)
      d2 == CopyAt(d1, 8, name)
  IN CopyAt(d2, 8 + Len(name), <<NL, NL>>)

declareGoPkgWrites == << PkgDeclaration(p) >>

\* ---- openGoVar ------------------------------------------------------------
left == <<"v", "a", "r", " ">>
right == <<" ", "=", " ", "[", "]", "b", "y", "t", "e", "{">>

\* center after the first-character rule (lines 118-121)
Center(name) ==
  IF ~IsLetter(name[1]) /\ name[1] # "_" THEN <<"_">> \o name ELSE name

\* the declaration buffer, sized from the name as given (line 113) and
\* filled from the name as adjusted (lines 115-132)
VarDeclaration(name) ==
  LET d0 == Repeat(NUL, 4 + Len(name) + 10)
      d1 == CopyAt(d0, 0, left)
      center == Center(name)
      d2 == [x \in 1..Len(d1) |->
               IF x > Len(left) /\ x - Len(left) <= Len(center)
                 THEN IF IsLetter(center[x - Len(left)]) \/ IsDigit(center[x - Len(left)])
                        THEN center[x - Len(left)]
                        ELSE "_"
                 ELSE d1[x]]
  IN CopyAt(d2, Len(left) + Len(center), right)

openGoVarWrites == << Repeat(TAB, i - 1), VarDeclaration(v), <<NL>> >>

\* ---- closeGoVar -----------------------------------------------------------
closeGoVarWrites == << Repeat(TAB, i - 1), <<"}", NL>> >>

\* ---- writeByteSlice -------------------------------------------------------
\* io.ReadFull(r, buf) with len(buf) = *c: the count and the error
ReadFullN == IF Len(input) - pos >= c THEN c ELSE Len(input) - pos

ReadFullErr ==
  IF ReadFullN = c THEN "nil"
  ELSE IF srcEnd = "ERR" THEN "ERR"
  ELSE IF ReadFullN = 0 THEN "EOF"
  ELSE "ErrUnexpectedEOF"

\* hex with the two nibbles taken in the wrong order
HexLitSwapped(b, j, n) ==
  << "0", "x", hextable[(b % 16) + 1], hextable[(b \div 16) + 1], ",",
     IF j = n THEN NL ELSE " " >>

\* hex without the j == n test: the separator is never a line terminator
HexLitNoTerminator(b, j, n) ==
  << "0", "x", hextable[(b \div 16) + 1], hextable[(b % 16) + 1], ",", " " >>

\* the six bytes of hex for byte b, the j-th of n (lines 176-185)
HexLit(b, j, n) ==
  << "0", "x", hextable[(b \div 16) + 1], hextable[(b % 16) + 1], ",",
     IF j = n THEN NL ELSE " " >>

\* the w.Write calls of one iteration that got past the read (lines 170-188)
IterationWrites(n) ==
  << Repeat(TAB, i) >> \o [j \in 1..n |-> HexLit(input[pos + j], j, n)]

RECURSIVE Flatten(_)
Flatten(qs) == IF qs = <<>> THEN <<>> ELSE Head(qs) \o Flatten(Tail(qs))

\* ---- main, from line 284 --------------------------------------------------
MainPkg ==
  /\ pc = "pkg"
  /\ IF ~s /\ p # <<>>
       THEN /\ writer' = WriteAll(writer, declareGoPkgWrites)
            /\ calls' = calls \o Logged("pkg", declareGoPkgWrites)
       ELSE UNCHANGED <<writer, calls>>
  /\ pc' = "open"
  /\ UNCHANGED <<flags, input, srcEnd, device, encoder, ending>>

MainOpen ==
  /\ pc = "open"
  /\ IF ~s
       THEN /\ writer' = WriteAll(writer, openGoVarWrites)
            /\ calls' = calls \o Logged("open", openGoVarWrites)
       ELSE UNCHANGED <<writer, calls>>
  /\ pc' = "body"
  /\ UNCHANGED <<flags, input, srcEnd, device, encoder, ending>>

\* one iteration of the loop of writeByteSlice
WriteByteSliceIter ==
  /\ pc = "body"
  /\ LET n == ReadFullN
         err == ReadFullErr
         ws == IterationWrites(n)
     IN /\ pos' = pos + n
        /\ lastN' = n
        /\ lastErr' = err
        /\ IF err = "ERR"
             THEN /\ ret' = "err"
                  /\ pc' = "ret"
                  /\ lastWritten' = <<>>
                  /\ UNCHANGED <<writer, calls>>
             ELSE /\ writer' = WriteAll(writer, ws)
                  /\ calls' = calls \o Logged("body", ws)
                  /\ lastWritten' = Flatten(ws)
                  /\ IF err \in {"EOF", "ErrUnexpectedEOF"}
                       THEN ret' = "nil" /\ pc' = "ret"
                       ELSE ret' = ret /\ pc' = "body"
  /\ UNCHANGED <<flags, input, srcEnd, device, ending>>

\* lines 293-296: the error is printed and os.Exit(1) runs no deferred call
MainExit ==
  /\ pc = "ret"
  /\ ret = "err"
  /\ reported' = TRUE
  /\ exit' = 1
  /\ pc' = "exited"
  /\ UNCHANGED <<flags, input, srcEnd, device, encoder, writer, calls,
                 flushes, flushErr>>

\* main without the strip test around closeGoVar
MainCloseAlways ==
  /\ pc = "ret"
  /\ ret = "nil"
  /\ writer' = WriteAll(writer, closeGoVarWrites)
  /\ calls' = calls \o Logged("close", closeGoVarWrites)
  /\ pc' = "return"
  /\ UNCHANGED <<flags, input, srcEnd, device, encoder, ending>>

MainClose ==
  /\ pc = "ret"
  /\ ret = "nil"
  /\ IF ~s
       THEN /\ writer' = WriteAll(writer, closeGoVarWrites)
            /\ calls' = calls \o Logged("close", closeGoVarWrites)
       ELSE UNCHANGED <<writer, calls>>
  /\ pc' = "return"
  /\ UNCHANGED <<flags, input, srcEnd, device, encoder, ending>>

\* main returns: the deferred writer.Flush() runs, its result dropped
MainReturn ==
  /\ pc = "return"
  /\ writer' = BufFlush(writer)
  /\ flushes' = flushes + 1
  /\ flushErr' = BufFlush(writer).err
  /\ exit' = 0
  /\ pc' = "done"
  /\ UNCHANGED <<flags, input, srcEnd, device, encoder, calls, reported>>

Next ==
  \/ MainPkg
  \/ MainOpen
  \/ WriteByteSliceIter
  \/ MainExit
  \/ MainClose
  \/ MainReturn

Spec == Init /\ [][Next]_vars

\* ---- reading the output back ----------------------------------------------
RECURSIVE TextOf(_)
TextOf(cs) == IF cs = <<>> THEN <<>> ELSE Head(cs).data \o TextOf(Tail(cs))

IsWho(who, r) == r.who = who

CallsOf(who) == SelectSeq(calls, LAMBDA r : IsWho(who, r))

BodyText == TextOf(CallsOf("body"))

AllText == TextOf(calls)

\* the lines of a text: each stretch ended by a line terminator, and the
\* unterminated stretch after the last terminator when it is not empty
RECURSIVE SplitLines(_, _)
SplitLines(t, cur) ==
  IF t = <<>> THEN (IF cur = <<>> THEN <<>> ELSE <<cur>>)
  ELSE IF Head(t) = NL THEN <<cur>> \o SplitLines(Tail(t), <<>>)
  ELSE SplitLines(Tail(t), Append(cur, Head(t)))

LinesOf(t) == SplitLines(t, <<>>)

NumLits(line) ==
  Cardinality({k \in 1..(Len(line) - 1) : line[k] = "0" /\ line[k + 1] = "x"})

RECURSIVE LeadingTabs(_)
LeadingTabs(line) ==
  IF line # <<>> /\ Head(line) = TAB THEN 1 + LeadingTabs(Tail(line)) ELSE 0

LowerHex == <<"0", "1", "2", "3", "4", "5", "6", "7",
              "8", "9", "a", "b", "c", "d", "e", "f">>

IsLowerHex(ch) == \E k \in 1..16 : LowerHex[k] = ch

DigitVal(ch) == (CHOOSE k \in 1..16 : LowerHex[k] = ch) - 1

\* the byte a literal 0xHH stands for; -1 when it is not exactly two
\* lowercase hex digits
ParseByte(t) ==
  IF IsLowerHex(t[3]) /\ IsLowerHex(t[4]) /\ (Len(t) = 4 \/ ~IsLowerHex(t[5]))
    THEN 16 * DigitVal(t[3]) + DigitVal(t[4])
    ELSE -1

\* the literals of a text, in order, each converted back to a byte
RECURSIVE Decode(_)
Decode(t) ==
  IF Len(t) < 4 THEN <<>>
  ELSE IF t[1] = "0" /\ t[2] = "x"
    THEN <<ParseByte(t)>> \o Decode(SubSeq(t, 5, Len(t)))
    ELSE Decode(Tail(t))

\* the identifier the sanitizing rules give for a name
Sanitize(name) ==
  LET n1 == IF ~IsLetter(name[1]) /\ name[1] # "_" THEN <<"_">> \o name ELSE name
  IN [x \in 1..Len(n1) |->
        IF x = 1 \/ IsLetter(n1[x]) \/ IsDigit(n1[x]) THEN n1[x] ELSE "_"]

LastChunk == SubSeq(input, pos - lastN + 1, pos)

LitText(b) == <<"0", "x", LowerHex[(b \div 16) + 1], LowerHex[(b % 16) + 1]>>

Rank(who) ==
  CASE who = "pkg" -> 1 [] who = "open" -> 2 [] who = "body" -> 3 [] who = "close" -> 4

Has(who) == \E k \in 1..Len(calls) : calls[k].who = who

\* ---- claims ---------------------------------------------------------------

\* C1: when the encoder has returned, every line of the body except the last
\* holds exactly c literals and the last holds len(input) mod c literals if
\* that is not zero, else c; no trailing line is without literals.
C1_LineCounts ==
  ret = "nil" =>
    LET ls == LinesOf(BodyText)
        L == Len(input)
    IN \A k \in 1..Len(ls) :
         NumLits(ls[k]) = IF k < Len(ls) THEN c
                          ELSE IF L % c # 0 THEN L % c ELSE c

\* C2: round trip: for a non-empty input, the literals of the body converted
\* back to bytes, in output order, are the input, each literal being exactly
\* two lowercase hex digits.
C2_RoundTrip ==
  (ret = "nil" /\ input # <<>>) => Decode(BodyText) = input

C2_Witness ==
  /\ ret = "nil"
  /\ Len(input) = MaxLen
  /\ c = 2
  /\ input[1] # input[2]
  /\ Decode(BodyText) = input

\* C3: openGoVar writes indent-1 tabs, then "var " + sanitize(name) +
\* " = []byte{", then a line terminator.
C3_OpenVariable ==
  (pc \notin {"pkg", "open"} /\ ~s) =>
    TextOf(CallsOf("open")) =
      Repeat(TAB, i - 1) \o left \o Sanitize(v) \o right \o <<NL>>

\* C4: the encoder never returns success after a write to the sink failed.
C4_WriteFailurePropagated ==
  (pc = "ret" /\ ret = "nil") => ~writer.err

\* C5: a read of 0 bytes at end-of-stream writes nothing, and the empty
\* input with strip=false, package="", variable="gohex", indent=1 gives
\* exactly "var gohex = []byte{\n}\n".
C5_NothingAtBoundary ==
  /\ (lastErr = "EOF" => lastWritten = <<>>)
  /\ ( ( /\ pc = "done"
         /\ ~writer.err
         /\ input = <<>>
         /\ ~s
         /\ p = <<>>
         /\ v = <<"g", "o", "h", "e", "x">>
         /\ i = 1 )
       => writer.file = <<"v", "a", "r", " ", "g", "o", "h", "e", "x", " ", "=",
                          " ", "[", "]", "b", "y", "t", "e", "{", NL, "}", NL>> )

\* C6: in the complete non-stripped output every body line starts with
\* exactly i tabs, and the variable line and the closing line with exactly
\* i-1 tabs.
C6_Indentation ==
  (pc = "done" /\ ~s /\ ~writer.err) =>
    LET ls == LinesOf(writer.file)
        first == IF p # <<>> THEN 3 ELSE 1
    IN /\ Len(ls) >= first + 1
       /\ LeadingTabs(ls[first]) = i - 1
       /\ LeadingTabs(ls[Len(ls)]) = i - 1
       /\ ls[Len(ls)] = Repeat(TAB, i - 1) \o <<"}">>
       /\ \A k \in (first + 1)..(Len(ls) - 1) : LeadingTabs(ls[k]) = i

\* C7 as stated: a chunk of n >= 1 bytes is written as i tabs and then each
\* literal 0xHH, followed by ", " except the last, which is followed by a
\* line terminator instead.
C7_Original ==
  (lastErr \in {"nil", "EOF", "ErrUnexpectedEOF"} /\ lastN >= 1) =>
    lastWritten =
      Repeat(TAB, i) \o
      Flatten([j \in 1..lastN |->
                 LitText(LastChunk[j]) \o
                 (IF j < lastN THEN <<",", " ">> ELSE <<NL>>)])

\* C7 as amended: a chunk of n >= 1 bytes is written as i tabs and then each
\* literal 0xHH followed by a comma; the comma is followed by a space,
\* except the last one of the chunk, which is followed by a line terminator.
C7_ChunkLine ==
  (lastErr \in {"nil", "EOF", "ErrUnexpectedEOF"} /\ lastN >= 1) =>
    lastWritten =
      Repeat(TAB, i) \o
      Flatten([j \in 1..lastN |->
                 LitText(LastChunk[j]) \o <<",">> \o
                 (IF j < lastN THEN <<" ">> ELSE <<NL>>)])

C7_Witness ==
  /\ lastN = 2
  /\ lastErr = "nil"
  /\ LastChunk[1] # LastChunk[2]
  /\ Len(lastWritten) = i + 12

\* C8: when a read fails mid-stream and the process exits with status 1,
\* everything written to the sink before the failure is in the output.
C8_OutputNotRetracted ==
  (pc = "exited" /\ ~writer.err) => writer.file = AllText

\* C9: a run that completes its writes flushes exactly once, after the last
\* write, and a failed flush is reported and gives a non-zero exit status.
C9_FlushSurfaced ==
  pc = "done" => (flushes = 1 /\ (flushErr => (reported /\ exit # 0)))

\* C10: the writes of a run are in the order package declaration, variable
\* line, body, closing line; the package declaration is written only when
\* not stripped and the package name is non-empty, the variable and closing
\* lines only when not stripped; a run that completes has written each part
\* its configuration calls for, and the output is the writes in that order.
C10_Order ==
  /\ \A a, b \in 1..Len(calls) :
       a < b => Rank(calls[a].who) <= Rank(calls[b].who)
  /\ Has("pkg") => (~s /\ p # <<>>)
  /\ Has("open") => ~s
  /\ Has("close") => ~s
  /\ pc \in {"return", "done"} =>
       /\ (~s /\ p # <<>>) => Has("pkg")
       /\ ~s => (Has("open") /\ Has("close"))
  /\ (pc = "done" /\ ~writer.err) => writer.file = AllText

C10_Witness ==
  /\ pc = "done"
  /\ ~writer.err
  /\ ~s
  /\ p # <<>>
  /\ Len(input) > c
  /\ Has("pkg") /\ Has("open") /\ Has("body") /\ Has("close")

====
